---------------------------- MODULE Spec2Model ----------------------------
(***************************************************************************)
(* Google Business Profile -> Snowflake batch job.                         *)
(*                                                                         *)
(* The model follows src/main.py (the orchestrator script) and             *)
(* src/businessProfile.py (token handling, the three fetch operations,     *)
(* the metrics flattener and the two sink helpers).  The remote services   *)
(* (token endpoint, tokeninfo endpoint, the three data endpoints, the      *)
(* warehouse) are the environment: every reply they can give is drawn      *)
(* from a small set with \E.                                               *)
(*                                                                         *)
(* Representation of Python values:                                        *)
(*   - a str whose "/"-structure the code uses ('accounts/123') is the     *)
(*     sequence of its "/"-separated segments (<<"accounts", "123">>);     *)
(*   - a formatted date 'YYYY-MM-DD' is the triple <<Y, M, D>> of its      *)
(*     "-"-separated fields;                                               *)
(*   - a dict is a function whose DOMAIN is its key set;                   *)
(*   - a list is a sequence; an insertion-ordered dict of rows (the        *)
(*     flattener's result_dict) is the sequence of its values in           *)
(*     insertion order, each value carrying its own key (Date);            *)
(*   - None (the token's initial value) is the token NoneToken;            *)
(*   - the value returned by checkAccessTokenExpiaryTime, which is an      *)
(*     int, None or "" depending on the path taken, is a tagged record.    *)
(***************************************************************************)
EXTENDS Integers, Sequences, FiniteSets, TLC

(***************************************************************************)
(* Bounds of the model.                                                    *)
(***************************************************************************)
\* pages one paginated fetch is served at most (the last has no nextPageToken)
MaxPages == 2
\* metric blocks in one metrics response (flattener specification)
MaxBlocks == 2
\* (date, value) entries in one metrics response (flattener specification)
MaxEntries == 3

(***************************************************************************)
(* Program constants.                                                      *)
(***************************************************************************)
\* the freshness threshold of "checkAccessTokenExpiaryTime(access_token) < 300"
MinLifetime == 300

\* main.py:18 (two of the three requested metrics are enough to show every
\* case of the flattener: same metric twice, two different metrics)
requiredMetrics == {"WEBSITE_CLICKS", "CALL_CLICKS"}

accountsTable == "RISHABH_DB.GOOGLE_BUSINESS_PROFILE.ACCOUNTS"
locationsTable == "RISHABH_DB.GOOGLE_BUSINESS_PROFILE.ACCOUNT_LOCATIONS"
metricsTable == "RISHABH_DB.GOOGLE_BUSINESS_PROFILE.METRICS"
Tables == {accountsTable, locationsTable, metricsTable}

(***************************************************************************)
(* Tokens.                                                                 *)
(***************************************************************************)
\* main.py:12  accessToken = None
NoneToken == "<None>"
\* access tokens the token endpoint can issue
IssuedTokens == {"tokA", "tokB"}

\* the three shapes of value checkAccessTokenExpiaryTime returns
PyInt(n) == [type |-> "int", int |-> n]
PyNone == [type |-> "NoneType", int |-> 0]
PyEmptyStr == [type |-> "str", int |-> 0]

\* replies of the tokeninfo endpoint: expires_in, or a failure (unreachable,
\* or a body without expires_in such as {"error": "invalid_token"})
Lifetimes == {MinLifetime - 1, MinLifetime}
TokenInfoReplies ==
    {[status |-> "ok", expires_in |-> n] : n \in Lifetimes}
    \cup {[status |-> "unreachable", expires_in |-> 0],
          [status |-> "no_expires_in", expires_in |-> 0]}

\* replies of the token endpoint: an access_token, or a failure
TokenReplies ==
    {[status |-> "ok", access_token |-> t] : t \in IssuedTokens}
    \cup {[status |-> "error", access_token |-> ""]}

\* businessProfile.py:132-150.  The value returned for a token under a reply
\* of the tokeninfo endpoint (the reply is consulted only for a non-empty
\* token): int(expires_in); "" from the except branch; None by falling off
\* the else branch.
checkAccessTokenExpiaryTime(access_token, reply) ==
    IF Len(access_token) # 0
    THEN IF reply.status = "ok" THEN PyInt(reply.expires_in) ELSE PyEmptyStr
    ELSE PyNone

\* whether checkAccessTokenExpiaryTime calls the network (line 140 is reached)
CallsTokenInfo(access_token) == Len(access_token) # 0

\* mutant of LessThan: "<=" for "<"
LessThan_OrEqual(v, n) == v.type = "int" /\ v.int <= n

\* Python 3's  value < 300 : defined on int, TypeError on None and on str
LessThanRaises(v) == v.type # "int"
LessThan(v, n) == v.type = "int" /\ v.int < n

\* businessProfile.py:190-207: the access_token of the reply, "" on any error
getNewAccessToken(reply) ==
    IF reply.status = "ok" THEN reply.access_token ELSE ""

(***************************************************************************)
(* JSON bodies of the data endpoints: a dict is a function on its keys.    *)
(***************************************************************************)
\* mutant of Extend: the page replaces the accumulator ("=" for "+=")
Extend_Overwrite(list, items) == items

\* lines 272 and 352, main.py:56 and 70:  list += items
Extend(list, items) == list \o items

EmptyJson == [k \in {} |-> 0]
Has(json, key) == key \in DOMAIN json

\* 'accounts/{id}' and 'locations/{id}' as their "/"-separated segments
AccountIds == {"a1", "a2"}
LocationIds == {"l1", "l2"}
Path(kind, id) == <<kind, id>>
\* str.split("/"): the list of the segments
Split(path) == [i \in 1..Len(path) |-> path[i]]

\* account records: with a name, or (guarded by main.py:48) without one
AccountRecords ==
    {[name |-> Path("accounts", id), type |-> "PERSONAL"] : id \in AccountIds}
    \cup {[type |-> "PERSONAL"]}
\* location records: with a name, or (guarded by main.py:60) without one
LocationRecords ==
    {[name |-> Path("locations", id), title |-> "shop"] : id \in LocationIds}
    \cup {[title |-> "shop"]}

\* the continuation cursor an endpoint hands out with its k-th page: an
\* opaque string naming the next page
PageTokens == <<"page2", "page3", "page4", "page5">>

\* the records the earlier pages of the running fetch listed (names are
\* unique: an endpoint lists a record once)
RECURSIVE Listed(_, _)
Listed(served, listField) ==
    IF served = <<>> THEN {}
    ELSE Listed(Tail(served), listField)
         \cup (IF Has(Head(served), listField)
               THEN {Head(served)[listField][i] :
                         i \in 1..Len(Head(served)[listField])}
               ELSE {})

\* the bodies a paginated endpoint can answer with after the pages `served`:
\* the list field present (no record, or one not listed yet) or omitted,
\* nextPageToken present (only when more pages follow) or omitted
PageBodies(listField, records, served) ==
    LET lists == {<<>>} \cup {<<r>> : r \in records \ Listed(served, listField)}
        base == {EmptyJson} \cup {listField :> l : l \in lists}
    IN  base \cup (IF Len(served) + 1 < MaxPages
                   THEN {("nextPageToken" :> PageTokens[Len(served) + 1]) @@ b :
                            b \in base}
                   ELSE {})

(***************************************************************************)
(* The metrics flattener, businessProfile.py:459-492.                      *)
(***************************************************************************)
\* a date of the response, {year, month, day}; datetime.date(y, m, d)
Dates ==
    {[year |-> 2023, month |-> 5, day |-> 31],
     [year |-> 2023, month |-> 6, day |-> 1],
     [year |-> 2023, month |-> 6, day |-> 2]}
\* Python's None for min_date
NoDate == [year |-> 0, month |-> 0, day |-> 0]

\* datetime.date ordering
DateLess(a, b) ==
    \/ a.year < b.year
    \/ a.year = b.year /\ a.month < b.month
    \/ a.year = b.year /\ a.month = b.month /\ a.day < b.day
DateGeq(a, b) == ~DateLess(a, b)

\* date.strftime("%Y-%m-%d"): the "-"-separated fields of the string
strftime(d) == <<d.year, d.month, d.day>>

\* int64 values arrive as JSON strings ("5", "7"); int(str)
ParseInt(s) == CASE s = "5" -> 5 [] s = "7" -> 7 [] OTHER -> 0
\* line 475: int(dated_value.get('value', 0))
ValueOf(dated_value) ==
    IF Has(dated_value, "value") THEN ParseInt(dated_value.value) ELSE 0

\* lines 469-470: min(dates) if dates else None
RECURSIVE MinOf(_)
MinOf(dates) ==
    IF Len(dates) = 1 THEN dates[1]
    ELSE LET m == MinOf(Tail(dates))
         IN  IF DateLess(m, dates[1]) THEN m ELSE dates[1]
MinDate(dated_values) ==
    IF Len(dated_values) = 0 THEN NoDate
    ELSE MinOf([i \in 1..Len(dated_values) |-> dated_values[i].date])

\* index of the row of result_dict keyed by formatted_date, 0 if there is none
RowIndex(result_dict, formatted_date) ==
    IF \E i \in 1..Len(result_dict) : result_dict[i]["Date"] = formatted_date
    THEN CHOOSE i \in 1..Len(result_dict) : result_dict[i]["Date"] = formatted_date
    ELSE 0

\* lines 479-481: create the row for the date if needed, set its metric column
Upsert(result_dict, formatted_date, metric, value) ==
    LET i == RowIndex(result_dict, formatted_date)
    IN  IF i = 0
        THEN Append(result_dict, (metric :> value) @@ ("Date" :> formatted_date))
        ELSE [result_dict EXCEPT ![i] = (metric :> value) @@ @]

\* mutant of Retained: ">" for ">="
Retained_Strict(min_date, date) == min_date # NoDate /\ DateLess(min_date, date)

\* line 478: min_date and date >= min_date
Retained(min_date, date) == min_date # NoDate /\ DateGeq(date, min_date)

\* lines 472-481: the loop over one block's entries
RECURSIVE FlattenEntries(_, _, _, _)
FlattenEntries(result_dict, metric, min_date, dated_values) ==
    IF dated_values = <<>> THEN result_dict
    ELSE LET dated_value == Head(dated_values)
             date == dated_value.date
             next == IF Retained(min_date, date)
                     THEN Upsert(result_dict, strftime(date), metric,
                                 ValueOf(dated_value))
                     ELSE result_dict
         IN  FlattenEntries(next, metric, min_date, Tail(dated_values))

\* lines 464-481: the loop over the blocks of one dailyMetricTimeSeries list
RECURSIVE FlattenBlocks(_, _)
FlattenBlocks(result_dict, blocks) ==
    IF blocks = <<>> THEN result_dict
    ELSE LET daily_metric == Head(blocks)
             dated_values == daily_metric.timeSeries.datedValues
         IN  FlattenBlocks(
                 FlattenEntries(result_dict, daily_metric.dailyMetric,
                                MinDate(dated_values), dated_values),
                 Tail(blocks))

\* lines 463-481: the loop over multiDailyMetricTimeSeries
RECURSIVE FlattenSeries(_, _)
FlattenSeries(result_dict, series) ==
    IF series = <<>> THEN result_dict
    ELSE FlattenSeries(
             FlattenBlocks(result_dict, Head(series).dailyMetricTimeSeries),
             Tail(series))

\* lines 486-487: tag every row with the location
TagRows(rows, column, value) ==
    [i \in 1..Len(rows) |-> (column :> value) @@ rows[i]]

\* lines 459-492: the rows returned for a response body
FlattenMetrics(data, locationId) ==
    IF Has(data, "multiDailyMetricTimeSeries")
    THEN TagRows(FlattenSeries(<<>>, data.multiDailyMetricTimeSeries),
                 "locationId", Path("locations", locationId))
    ELSE <<>>

\* a metric block and a response made of blocks
Block(metric, dated_values) ==
    [dailyMetric |-> metric, timeSeries |-> [datedValues |-> dated_values]]
MetricsBody(series) == [multiDailyMetricTimeSeries |-> series]
Series(blocks) == [dailyMetricTimeSeries |-> blocks]

(***************************************************************************)
(* State.                                                                  *)
(***************************************************************************)
VARIABLES
    pc,                 \* position of main.py
    fpc,                \* position inside the running fetch operation
    error,              \* the exception caught at main.py:97, "" if none
    accessToken,        \* main.py:12, threaded through every fetch
    pageToken,          \* the cursor of the running paginated fetch
    accounts,           \* accumulator of listAllAccounts
    allLocations,       \* accumulator of getAccountLocations
    allAccountDetails,  \* main.py:33
    allLocationDetails, \* main.py:52
    locations_data,     \* main.py:13
    metrics_data,       \* main.py:14
    ai,                 \* index of item in the loop of main.py:47
    li,                 \* index of item2 in the loop of main.py:59
    tables,             \* contents of the three Snowflake tables
    rows,               \* main.py:43: the row count the last table write
                        \* returned and logged (dead after the log line)
    now,                \* logical clock read for LOADTIMESTAMP
    \* ---- history (observation only, never read by the program) ----
    iter,               \* the token handling of the current loop iteration
    cursors,            \* cursors sent by the running paginated fetch
    pages,              \* bodies served to the running paginated fetch
    metricsLog,         \* (locationId, body) of every metrics request answered
    writes,             \* committed overwrites per table
    lastBearer,         \* the token carried by the latest data request
    happened,           \* the operations of main.py that have taken place
    sinkFailures,       \* tables whose sink operation logged an error
    \* ---- flattener specification ----
    data,               \* the metrics body handed to the flattener
    result_list,        \* the rows it returned
    flattened           \* whether it has run

progVars == <<pc, fpc, error, accessToken, pageToken, accounts, allLocations,
              allAccountDetails, allLocationDetails, locations_data,
              metrics_data, ai, li, tables, rows, now>>
histVars == <<iter, cursors, pages, metricsLog, writes, lastBearer, happened,
              sinkFailures>>
flatVars == <<data, result_list, flattened>>
vars == <<progVars, histVars, flatVars>>

\* rows left in a table by an earlier run
OldRows == <<[Date |-> "earlier run"]>>

NoIter ==
    [op |-> "", token |-> NoneToken, called |-> FALSE, network |-> FALSE,
     result |-> PyNone, raised |-> FALSE, refreshed |-> FALSE,
     sent |-> FALSE, bearer |-> NoneToken]

InitProgram ==
    /\ pc = "start"
    /\ fpc = "idle"
    /\ error = ""
    /\ accessToken = NoneToken
    /\ pageToken = ""
    /\ accounts = <<>>
    /\ allLocations = <<>>
    /\ allAccountDetails = <<>>
    /\ allLocationDetails = <<>>
    /\ locations_data = <<>>
    /\ metrics_data = <<>>
    /\ ai = 0
    /\ li = 0
    /\ tables = [t \in Tables |-> OldRows]
    /\ rows = 0
    /\ now = 1
    /\ iter = NoIter
    /\ cursors = <<>>
    /\ pages = <<>>
    /\ metricsLog = <<>>
    /\ writes = [t \in Tables |-> 0]
    /\ lastBearer = NoneToken
    /\ happened = {}
    /\ sinkFailures = {}
    /\ result_list = <<>>
    /\ flattened = FALSE

Init ==
    /\ InitProgram
    /\ data = EmptyJson

\* the observation of a fetch ends when main.py moves on
ClearFetchHistory ==
    /\ iter' = NoIter
    /\ cursors' = <<>>
    /\ pages' = <<>>

FetchPcs == {"listAllAccounts", "getAccountLocations",
             "fetchMultiDailyMetricsTimeSeries"}

\* mutant of Abort: the error is recorded and the script goes on
Abort_KeepGoing(e) == error' = e /\ UNCHANGED <<pc, fpc>>

\* main.py:97-99: the exception ends the script
Abort(e) ==
    /\ pc' = "aborted"
    /\ fpc' = "idle"
    /\ error' = e

(***************************************************************************)
(* main.py:30 and businessProfile.py:58-65, then the entry of              *)
(* listAllAccounts (lines 256-257).                                        *)
\* mutant of PassToken: every fetch is entered without a token
PassToken_None(token) == NoneToken

\* main.py:33, 52 and 64: access_token=accessToken, the fetch starts from
\* the token main.py holds (the one the previous fetch returned)
PassToken(token) == token

(***************************************************************************)
GetSession ==
    /\ pc = "start"
    /\ \E created \in BOOLEAN :
          IF created
          THEN /\ pc' = "listAllAccounts"
               /\ fpc' = "check"
               /\ accessToken' = PassToken(accessToken)
               /\ happened' = happened \cup {"getSnowflakeSession"}
               /\ UNCHANGED error
          ELSE /\ Abort("Snowflake Connection error : Aborting.")
               /\ UNCHANGED <<accessToken, happened>>
    /\ accounts' = <<>>
    /\ pageToken' = ""
    /\ cursors' = <<>>
    /\ pages' = <<>>
    /\ UNCHANGED <<allLocations, allAccountDetails,
                   allLocationDetails, locations_data, metrics_data, ai, li,
                   tables, rows, now, iter, metricsLog, writes, lastBearer, sinkFailures,
                   flatVars>>

(***************************************************************************)
(* The condition of lines 261, 340 and 446:                                *)
(*   access_token is None or checkAccessTokenExpiaryTime(access_token) < 300 *)
(* "or" short-cuts on None; the comparison raises TypeError when the check *)
(* returned None or "", and the exception leaves the fetch operation.      *)
(***************************************************************************)
CheckToken ==
    /\ pc \in FetchPcs
    /\ fpc = "check"
    /\ \E reply \in TokenInfoReplies :
          LET isNone == accessToken = NoneToken
              result == IF isNone THEN PyNone
                        ELSE checkAccessTokenExpiaryTime(accessToken, reply)
              raises == ~isNone /\ LessThanRaises(result)
              refresh == isNone \/ LessThan(result, MinLifetime)
          IN  /\ iter' = [op |-> pc,
                          token |-> accessToken,
                          called |-> ~isNone,
                          network |-> ~isNone /\ CallsTokenInfo(accessToken),
                          result |-> result,
                          raised |-> raises,
                          refreshed |-> FALSE,
                          sent |-> FALSE,
                          bearer |-> NoneToken]
              /\ IF raises THEN Abort("TypeError")
                 ELSE /\ fpc' = IF refresh THEN "refresh" ELSE "request"
                      /\ UNCHANGED <<pc, error>>
    /\ UNCHANGED <<accessToken, pageToken, accounts, allLocations,
                   allAccountDetails, allLocationDetails, locations_data,
                   metrics_data, ai, li, tables, rows, now, cursors, pages,
                   metricsLog, writes, lastBearer, happened, sinkFailures,
                   flatVars>>

(***************************************************************************)
(* Lines 262, 341 and 447: access_token = getNewAccessToken(credentials).  *)
(***************************************************************************)
RefreshToken ==
    /\ pc \in FetchPcs
    /\ fpc = "refresh"
    /\ \E reply \in TokenReplies :
          accessToken' = getNewAccessToken(reply)
    /\ iter' = [iter EXCEPT !.refreshed = TRUE]
    /\ fpc' = "request"
    /\ UNCHANGED <<pc, error, pageToken, accounts, allLocations,
                   allAccountDetails, allLocationDetails, locations_data,
                   metrics_data, ai, li, tables, rows, now, cursors, pages,
                   metricsLog, writes, lastBearer, happened, sinkFailures,
                   flatVars>>

\* the body a data endpoint answers a request without credentials with
ErrorBody == [error |-> "UNAUTHENTICATED"]

\* what a data endpoint answers, given the bearer token of the request
Answers(bodies) == IF accessToken = "" THEN {ErrorBody} ELSE bodies

(***************************************************************************)
(* listAllAccounts, lines 264-280, and the assignment of main.py:33.       *)
(***************************************************************************)
RequestAccounts ==
    /\ pc = "listAllAccounts"
    /\ fpc = "request"
    /\ iter' = [iter EXCEPT !.sent = TRUE, !.bearer = accessToken]
    /\ lastBearer' = accessToken
    /\ happened' = happened \cup {pc}
    /\ cursors' = Append(cursors, pageToken)
    /\ \/ \* requests.get or response.json() raises
          /\ Abort("FetchError")
          /\ UNCHANGED <<pages, accounts, pageToken, allAccountDetails>>
       \/ \E body \in Answers(PageBodies("accounts", AccountRecords,
                                         pages)) :
             /\ pages' = Append(pages, body)
             /\ IF ~Has(body, "accounts")
                THEN /\ Abort("KeyError")
                     /\ UNCHANGED <<accounts, pageToken, allAccountDetails>>
                ELSE /\ accounts' = Extend(accounts, body.accounts)
                     /\ IF Has(body, "nextPageToken")
                        THEN /\ pageToken' = body.nextPageToken
                             /\ fpc' = "check"
                             /\ UNCHANGED <<pc, error, allAccountDetails>>
                        ELSE /\ allAccountDetails' = accounts'
                             /\ pc' = "writeAccounts"
                             /\ fpc' = "idle"
                             /\ pageToken' = ""
                             /\ UNCHANGED error
    /\ UNCHANGED <<accessToken, allLocations, allLocationDetails,
                   locations_data, metrics_data, ai, li, tables, rows, now,
                   metricsLog, writes, sinkFailures,
                   flatVars>>

(***************************************************************************)
(* The sink helpers.                                                       *)
(***************************************************************************)
\* a Snowpark DataFrame (its rows), or Python's None
DataFrame(rs) == [isNone |-> FALSE, rows |-> rs]
NoneValue == [isNone |-> TRUE, rows |-> <<>>]

\* businessProfile.py:94-100: the dataframe, None when createDataFrame raises
convertListToSnowparkDataframe(list, created) ==
    IF created THEN DataFrame(list) ELSE NoneValue

\* df.withColumn(name, lit(value))
withColumn(df, name, value) ==
    DataFrame([i \in 1..Len(df.rows) |-> (name :> value) @@ df.rows[i]])

\* outcomes of snowparkDataframeToSnowflakeTable's try block: both calls
\* succeed, save_as_table raises, or count() raises after the table is saved
SaveOutcomes == {"saved", "save_as_table raises", "count raises"}

\* businessProfile.py:522-529: the row count returned
snowparkDataframeToSnowflakeTable(df, outcome) ==
    IF outcome = "saved" THEN Len(df.rows) ELSE 0

\* the table after the call: overwritten unless save_as_table raised
SavedTable(old, df, outcome) ==
    IF outcome = "save_as_table raises" THEN old ELSE df.rows

\* main.py:36-44, 74-82 and 86-94: dataframe, LOADTIMESTAMP, table write.
\* A None dataframe raises AttributeError at df.withColumn.
WriteTable(list, tableName, next) ==
    \E created \in BOOLEAN, outcome \in SaveOutcomes :
       LET df0 == convertListToSnowparkDataframe(list, created)
           df == withColumn(df0, "LOADTIMESTAMP", now)
       IN  IF df0.isNone
           THEN /\ Abort("AttributeError")
                /\ sinkFailures' = sinkFailures \cup {tableName}
                /\ UNCHANGED <<tables, rows, now, writes, happened>>
           ELSE /\ now' = now + 1
                /\ rows' = snowparkDataframeToSnowflakeTable(df, outcome)
                /\ tables' = [tables EXCEPT
                                ![tableName] = SavedTable(@, df, outcome)]
                /\ writes' = [writes EXCEPT ![tableName] =
                                IF outcome = "save_as_table raises"
                                THEN @ ELSE @ + 1]
                /\ happened' = happened \cup {tableName}
                /\ sinkFailures' = IF outcome = "saved" THEN sinkFailures
                                 ELSE sinkFailures \cup {tableName}
                /\ pc' = next
                /\ UNCHANGED <<fpc, error>>

(***************************************************************************)
(* main.py:36-44: the accounts table.                                      *)
\* mutant of WriteAccounts: the loop over the accounts starts without the
\* accounts table having been written
WriteAccounts_Skipped ==
    /\ pc = "writeAccounts"
    /\ pc' = "forAccount"
    /\ ai' = 1
    /\ ClearFetchHistory
    /\ UNCHANGED <<fpc, error, accessToken, pageToken, accounts, allLocations,
                   allAccountDetails, allLocationDetails, locations_data,
                   metrics_data, li, tables, rows, now, metricsLog, writes,
                   lastBearer, happened, sinkFailures, flatVars>>

(***************************************************************************)
WriteAccounts ==
    /\ pc = "writeAccounts"
    /\ WriteTable(allAccountDetails, accountsTable, "forAccount")
    /\ ai' = 1
    /\ ClearFetchHistory
    /\ UNCHANGED <<accessToken, pageToken, accounts, allLocations,
                   allAccountDetails, allLocationDetails, locations_data,
                   metrics_data, li, metricsLog, lastBearer,
                   flatVars>>

\* mutant of IdOf: the first segment for the second
IdOf_First(item) == Split(item.name)[1]

\* main.py:49 and 61: item['name'].split("/")[1]
IdOf(item) == Split(item.name)[2]

(***************************************************************************)
(* main.py:47-52: the loop over the accounts; an account with a name       *)
(* enters getAccountLocations (lines 335-336).                             *)
(***************************************************************************)
ForAccount ==
    /\ pc = "forAccount"
    /\ IF ai > Len(allAccountDetails)
       THEN /\ pc' = "writeMetrics"
            /\ UNCHANGED <<fpc, ai, allLocations, pageToken, accessToken>>
       ELSE IF Has(allAccountDetails[ai], "name")
            THEN /\ pc' = "getAccountLocations"
                 /\ fpc' = "check"
                 /\ allLocations' = <<>>
                 /\ pageToken' = ""
                 /\ accessToken' = PassToken(accessToken)
                 /\ UNCHANGED ai
            ELSE /\ ai' = ai + 1
                 /\ UNCHANGED <<pc, fpc, allLocations, pageToken,
                                accessToken>>
    /\ ClearFetchHistory
    /\ rows' = 0
    /\ UNCHANGED <<error, accounts, allAccountDetails,
                   allLocationDetails, locations_data, metrics_data, li,
                   tables, now, metricsLog, writes, lastBearer, happened, sinkFailures,
                   flatVars>>

\* the location records the accounts handled so far own (a location is the
\* child of exactly one account)
Owned ==
    {[k \in DOMAIN locations_data[i] \ {"accountId"} |-> locations_data[i][k]] :
        i \in 1..Len(locations_data)}

(***************************************************************************)
(* getAccountLocations, lines 343-363, and main.py:52-56.                  *)
(***************************************************************************)
RequestLocations ==
    /\ pc = "getAccountLocations"
    /\ fpc = "request"
    /\ iter' = [iter EXCEPT !.sent = TRUE, !.bearer = accessToken]
    /\ lastBearer' = accessToken
    /\ happened' = happened \cup {pc}
    /\ cursors' = Append(cursors, pageToken)
    /\ \/ \* requests.get or response.json() raises
          /\ Abort("FetchError")
          /\ UNCHANGED <<pages, allLocations, pageToken, allLocationDetails,
                         locations_data, li>>
       \/ \E body \in Answers(PageBodies("locations",
                                         LocationRecords \ Owned, pages)) :
             /\ pages' = Append(pages, body)
             /\ allLocations' = IF Has(body, "locations")
                                THEN Extend(allLocations, body.locations)
                                ELSE allLocations
             /\ IF Has(body, "nextPageToken")
                THEN /\ pageToken' = body.nextPageToken
                     /\ fpc' = "check"
                     /\ UNCHANGED <<pc, error, allLocationDetails,
                                    locations_data, li>>
                ELSE /\ allLocationDetails' =
                           TagRows(allLocations', "accountId",
                                   Path("accounts", IdOf(allAccountDetails[ai])))
                     /\ locations_data' = Extend(locations_data, allLocationDetails')
                     /\ li' = 1
                     /\ pc' = "forLocation"
                     /\ fpc' = "idle"
                     /\ pageToken' = ""
                     /\ UNCHANGED error
    /\ UNCHANGED <<accessToken, accounts, allAccountDetails, metrics_data, ai,
                   tables, rows, now, metricsLog, writes, sinkFailures,
                   flatVars>>

(***************************************************************************)
(* main.py:59-64: the loop over the locations of the account; a location   *)
(* with a name enters fetchMultiDailyMetricsTimeSeries.                    *)
(***************************************************************************)
ForLocation ==
    /\ pc = "forLocation"
    /\ IF li > Len(allLocationDetails)
       THEN /\ pc' = "forAccount"
            /\ ai' = ai + 1
            /\ UNCHANGED <<fpc, li, accessToken>>
       ELSE IF Has(allLocationDetails[li], "name")
            THEN /\ pc' = "fetchMultiDailyMetricsTimeSeries"
                 /\ fpc' = "check"
                 /\ accessToken' = PassToken(accessToken)
                 /\ UNCHANGED <<ai, li>>
            ELSE /\ li' = li + 1
                 /\ UNCHANGED <<pc, fpc, ai, accessToken>>
    /\ ClearFetchHistory
    /\ UNCHANGED <<error, pageToken, accounts, allLocations,
                   allAccountDetails, allLocationDetails, locations_data,
                   metrics_data, tables, rows, now, metricsLog, writes,
                   lastBearer, happened, sinkFailures,
                   flatVars>>

\* bodies of the metrics endpoint: no time-series section, or two blocks
\* with four entries on three distinct dates
D(m, d) == [year |-> 2023, month |-> m, day |-> d]
MetricsBodies ==
    { EmptyJson,
      MetricsBody(<<Series(<<
          Block("WEBSITE_CLICKS",
                <<[date |-> D(6, 2), value |-> "5"], [date |-> D(5, 31)]>>),
          Block("CALL_CLICKS",
                <<[date |-> D(6, 1), value |-> "7"], [date |-> D(6, 2)]>>)>>)>>) }

(***************************************************************************)
(* fetchMultiDailyMetricsTimeSeries, lines 449-492, and main.py:64-70.     *)
(***************************************************************************)
RequestMetrics ==
    /\ pc = "fetchMultiDailyMetricsTimeSeries"
    /\ fpc = "request"
    /\ iter' = [iter EXCEPT !.sent = TRUE, !.bearer = accessToken]
    /\ lastBearer' = accessToken
    /\ happened' = happened \cup {pc}
    /\ \/ \* requests.get or response.json() raises
          /\ Abort("FetchError")
          /\ UNCHANGED <<metrics_data, metricsLog, li>>
       \/ \E body \in Answers(MetricsBodies) :
             LET location_Id == IdOf(allLocationDetails[li])
             IN  /\ metrics_data' =
                       Extend(metrics_data, FlattenMetrics(body, location_Id))
                 /\ metricsLog' = Append(metricsLog,
                       [locationId |-> location_Id, data |-> body])
                 /\ li' = li + 1
                 /\ pc' = "forLocation"
                 /\ fpc' = "idle"
                 /\ UNCHANGED error
    /\ UNCHANGED <<accessToken, pageToken, accounts, allLocations,
                   allAccountDetails, allLocationDetails, locations_data, ai,
                   tables, rows, now, cursors, pages, writes, sinkFailures,
                   flatVars>>

(***************************************************************************)
(* main.py:73-82: the metrics table, written only for a non-empty list.    *)
(***************************************************************************)
WriteMetrics ==
    /\ pc = "writeMetrics"
    /\ IF metrics_data # <<>>
       THEN WriteTable(metrics_data, metricsTable, "writeLocations")
       ELSE /\ pc' = "writeLocations"
            /\ UNCHANGED <<fpc, error, tables, rows, now, writes, happened,
                         sinkFailures>>
    /\ UNCHANGED <<accessToken, pageToken, accounts, allLocations,
                   allAccountDetails, allLocationDetails, locations_data,
                   metrics_data, ai, li, iter, cursors, pages, metricsLog,
                   lastBearer,
                   flatVars>>

(***************************************************************************)
(* main.py:85-94: the locations table, written only for a non-empty list.  *)
(***************************************************************************)
WriteLocations ==
    /\ pc = "writeLocations"
    /\ IF locations_data # <<>>
       THEN WriteTable(locations_data, locationsTable, "done")
       ELSE /\ pc' = "done"
            /\ UNCHANGED <<fpc, error, tables, rows, now, writes, happened,
                         sinkFailures>>
    /\ UNCHANGED <<accessToken, pageToken, accounts, allLocations,
                   allAccountDetails, allLocationDetails, locations_data,
                   metrics_data, ai, li, iter, cursors, pages, metricsLog,
                   lastBearer,
                   flatVars>>

Next ==
    \/ GetSession
    \/ CheckToken
    \/ RefreshToken
    \/ RequestAccounts
    \/ WriteAccounts
    \/ ForAccount
    \/ RequestLocations
    \/ ForLocation
    \/ RequestMetrics
    \/ WriteMetrics
    \/ WriteLocations

Spec == Init /\ [][Next]_vars

(***************************************************************************)
(* The flattener on its own: every response body within the bounds is an   *)
(* initial state, and the one action applies lines 459-492 to it.          *)
(***************************************************************************)
\* entries of the bodies: three dates, a value or none
FlatEntries ==
    {[date |-> d, value |-> "5"] : d \in Dates} \cup {[date |-> d] : d \in Dates}

\* the blocks cut out of the entries es at the positions cuts (ascending),
\* named by metrics
CutBlocks(es, cuts, metrics) ==
    [b \in 1..Len(metrics) |->
        Block(metrics[b],
              SubSeq(es, (IF b = 1 THEN 0 ELSE cuts[b - 1]) + 1,
                         IF b = Len(metrics) THEN Len(es) ELSE cuts[b]))]

Ascending(cuts) == \A i \in 1..(Len(cuts) - 1) : cuts[i] <= cuts[i + 1]

\* the blocks in one dailyMetricTimeSeries list, or one list per block
Grouped(blocks, together) ==
    IF together THEN <<Series(blocks)>>
    ELSE [b \in 1..Len(blocks) |-> Series(<<blocks[b]>>)]

\* a body without the section, or at most MaxBlocks blocks holding at most
\* MaxEntries entries altogether
InitFlat ==
    /\ InitProgram
    /\ \/ data = EmptyJson
       \/ data = MetricsBody(<<>>)
       \/ \E n \in 0..MaxEntries, b \in 1..MaxBlocks :
             \E es \in [1..n -> FlatEntries],
                cuts \in [1..(b - 1) -> 0..n],
                metrics \in [1..b -> requiredMetrics],
                together \in BOOLEAN :
                /\ Ascending(cuts)
                /\ data = MetricsBody(
                              Grouped(CutBlocks(es, cuts, metrics), together))

Flatten ==
    /\ ~flattened
    /\ \E locationId \in LocationIds :
          result_list' = FlattenMetrics(data, locationId)
    /\ flattened' = TRUE
    /\ UNCHANGED <<progVars, histVars, data>>

NextFlat == Flatten

SpecFlat == InitFlat /\ [][NextFlat]_vars

(***************************************************************************)
(* Properties of the paginated fetches and of the token handling.          *)
(***************************************************************************)
\* the paginated fetch under observation: listAllAccounts until the accounts
\* are written (ai = 0), getAccountLocations afterwards
PaginatedRunning == pc \in {"listAllAccounts", "getAccountLocations"}
Observed == PaginatedRunning \/ cursors # <<>>
ListField == IF ai = 0 THEN "accounts" ELSE "locations"
Accumulated == IF ai = 0 THEN accounts ELSE allLocations

PageList(body, listField) ==
    IF Has(body, listField) THEN body[listField] ELSE <<>>

RECURSIVE ConcatPages(_, _)
ConcatPages(served, listField) ==
    IF served = <<>> THEN <<>>
    ELSE PageList(Head(served), listField)
         \o ConcatPages(Tail(served), listField)

RECURSIVE SumCounts(_, _)
SumCounts(served, listField) ==
    IF served = <<>> THEN 0
    ELSE Len(PageList(Head(served), listField))
         + SumCounts(Tail(served), listField)

\* C1: a paginated fetch (listAllAccounts, getAccountLocations) sends one
\* request per page served, the empty cursor first and then each returned
\* nextPageToken in turn; it is still in its loop exactly while the last
\* page served carried a nextPageToken, and leaves it in the step that is
\* served the page without one; its accumulator is the concatenation of the
\* per-page lists in page order, so its length is the sum of the per-page
\* counts.  (A request that raises was sent but served no page.)
C1_PaginationConcatenates ==
    Observed =>
        LET n == Len(pages)
        IN  /\ n <= MaxPages
            /\ Len(cursors) = IF error = "FetchError" THEN n + 1 ELSE n
            /\ \A k \in 1..(n - 1) : Has(pages[k], "nextPageToken")
            /\ \A k \in 1..Len(cursors) :
                  cursors[k] = IF k = 1 THEN ""
                               ELSE pages[k - 1]["nextPageToken"]
            /\ PaginatedRunning <=>
                  /\ error = ""
                  /\ n = 0 \/ Has(pages[n], "nextPageToken")
            /\ Accumulated = ConcatPages(pages, ListField)
            /\ Len(Accumulated) = SumCounts(pages, ListField)
            /\ (~PaginatedRunning /\ error = "") =>
                  Len(IF ai = 0 THEN allAccountDetails
                      ELSE allLocationDetails)
                    = SumCounts(pages, ListField)

\* a fetch of two pages, each listing a record, has returned
C1_Witness ==
    /\ pc = "forLocation"
    /\ error = ""
    /\ Len(pages) = 2
    /\ Len(cursors) = 2
    /\ Len(allLocationDetails) = 2

\* the token of the current iteration was found usable: non-empty, and the
\* introspection reported at least 300 seconds
FoundUsable ==
    /\ iter.op # ""
    /\ iter.token # NoneToken
    /\ iter.token # ""
    /\ iter.result.type = "int"
    /\ iter.result.int >= 300

\* the token of the current iteration was found unusable: None, empty, or
\* reported with less than 300 seconds
FoundUnusable ==
    /\ iter.op # ""
    /\ \/ iter.token = NoneToken
       \/ iter.token = ""
       \/ iter.result.type = "int" /\ iter.result.int < 300

\* C2: in each of the three fetch operations, when the current token is
\* non-empty and the introspection reports at least 300 seconds,
\* getNewAccessToken is not invoked before the request and the request
\* carries the unchanged token.
C2_FreshTokenIsKept ==
    FoundUsable =>
        /\ ~iter.refreshed
        /\ fpc # "refresh"
        /\ accessToken = iter.token
        /\ iter.sent => iter.bearer = iter.token

\* a metrics request went out with a token reported at exactly 300 seconds
C2_Witness ==
    /\ FoundUsable
    /\ iter.op = "fetchMultiDailyMetricsTimeSeries"
    /\ iter.result.int = 300
    /\ iter.sent
    /\ iter.bearer \in IssuedTokens

\* C3: the freshness check precedes every page request, and a token found
\* below 300 seconds or empty (None or "") makes the fetch invoke
\* getNewAccessToken before the page request, so that no page request
\* carries a token found unusable.
C3_UnusableTokenIsRefreshed ==
    /\ iter.sent => iter.op # ""
    /\ FoundUnusable =>
          /\ fpc = "refresh" \/ iter.refreshed
          /\ iter.sent => iter.refreshed

\* C4: for the token "" checkAccessTokenExpiaryTime makes no network call
\* and the caller's test 'lifetime < 300' classifies the token as needing
\* a refresh instead of failing.
C4_EmptyTokenNeedsRefresh ==
    (iter.op # "" /\ iter.token = "") =>
        /\ ~iter.network
        /\ ~iter.raised
        /\ fpc = "refresh" \/ iter.refreshed

\* C5: when the introspection of a non-empty token fails,
\* checkAccessTokenExpiaryTime returns an error value and the calling fetch
\* treats the token as expired: it invokes getNewAccessToken and goes on
\* with the page request instead of aborting.
C5_FailedIntrospectionRefreshes ==
    (iter.op # "" /\ iter.network /\ iter.result.type = "str") =>
        /\ ~iter.raised
        /\ pc # "aborted"
        /\ fpc = "refresh" \/ iter.refreshed

\* C6: in both paginated fetches a page (answered to an authenticated
\* request) that omits the list field is an empty page: no error is raised,
\* nothing is appended, and the continuation rule is applied to it.
C6_OmittedListIsEmptyPage ==
    LET n == Len(pages)
    IN  ( /\ Observed
          /\ iter.sent
          /\ iter.bearer # ""
          /\ error # "FetchError"
          /\ n > 0
          /\ ~Has(pages[n], ListField) ) =>
            /\ error = ""
            /\ Accumulated = ConcatPages(SubSeq(pages, 1, n - 1), ListField)
            /\ IF Has(pages[n], "nextPageToken")
               THEN PaginatedRunning /\ pageToken = pages[n]["nextPageToken"]
               ELSE ~PaginatedRunning

\* C7: a failed getNewAccessToken returns the empty token, and after a
\* failed issuance no data request is sent carrying the empty token.
C7_NoRequestWithEmptyToken ==
    ~(iter.sent /\ iter.refreshed /\ iter.bearer = "")

(***************************************************************************)
(* Properties of the flattener and of the orchestrator.                    *)
(***************************************************************************)
\* the (metric, entry) pairs of a body in the order the response lists them
BlockEntries(block) ==
    [i \in 1..Len(block.timeSeries.datedValues) |->
        [metric |-> block.dailyMetric,
         dated |-> block.timeSeries.datedValues[i]]]

RECURSIVE EntriesOfBlocks(_)
EntriesOfBlocks(blocks) ==
    IF blocks = <<>> THEN <<>>
    ELSE BlockEntries(Head(blocks)) \o EntriesOfBlocks(Tail(blocks))

RECURSIVE EntriesOfSeries(_)
EntriesOfSeries(series) ==
    IF series = <<>> THEN <<>>
    ELSE EntriesOfBlocks(Head(series).dailyMetricTimeSeries)
         \o EntriesOfSeries(Tail(series))

AllEntries(body) ==
    IF Has(body, "multiDailyMetricTimeSeries")
    THEN EntriesOfSeries(body.multiDailyMetricTimeSeries)
    ELSE <<>>

DatesOf(body) ==
    {AllEntries(body)[k].dated.date : k \in 1..Len(AllEntries(body))}

\* the integer an entry reports: its decimal value, 0 when it has none
Reported(dated) ==
    IF ~Has(dated, "value") THEN 0
    ELSE IF dated.value = "5" THEN 5
    ELSE IF dated.value = "7" THEN 7
    ELSE -1

SetMax(S) == CHOOSE x \in S : \A y \in S : y <= x

\* C8: the flattener returns exactly one row per distinct date occurring in
\* any block (no entry is dropped); the row for date d has a column for
\* metric m if and only if a block of metric m has an entry dated d, and the
\* column holds that entry's integer value (0 when the value is absent, the
\* last entry winning on a repeated date); a metric with no entry on d is
\* absent from the row.
C8_FlattenerRows ==
    flattened =>
        LET es == AllEntries(data)
            n == Len(result_list)
        IN  /\ n = Cardinality(DatesOf(data))
            /\ {result_list[i]["Date"] : i \in 1..n}
                 = {<<d.year, d.month, d.day>> : d \in DatesOf(data)}
            /\ \A i \in 1..n :
                  /\ DOMAIN result_list[i]
                       \subseteq {"Date", "locationId"} \cup requiredMetrics
                  /\ \A m \in requiredMetrics :
                        LET hits == {k \in 1..Len(es) :
                                       /\ es[k].metric = m
                                       /\ <<es[k].dated.date.year,
                                            es[k].dated.date.month,
                                            es[k].dated.date.day>>
                                            = result_list[i]["Date"]}
                        IN  /\ Has(result_list[i], m) <=> hits # {}
                            /\ hits # {} =>
                                  result_list[i][m]
                                    = Reported(es[SetMax(hits)].dated)

\* two metrics on disjoint dates, one of them repeating a date with and
\* without a value: three entries, two rows, each with one metric only
C8_Witness ==
    /\ flattened
    /\ Len(AllEntries(data)) = 3
    /\ Len(result_list) = 2
    /\ \E i, j \in 1..Len(result_list) :
          /\ Has(result_list[i], "WEBSITE_CLICKS")
          /\ ~Has(result_list[i], "CALL_CLICKS")
          /\ result_list[i]["WEBSITE_CLICKS"] = 0
          /\ Has(result_list[j], "CALL_CLICKS")
          /\ ~Has(result_list[j], "WEBSITE_CLICKS")
          /\ result_list[j]["CALL_CLICKS"] = 5

\* the ids of the records of a list that have a name
RECURSIVE NamedIds(_)
NamedIds(list) ==
    IF list = <<>> THEN <<>>
    ELSE (IF Has(Head(list), "name") THEN <<Head(list).name[2]>> ELSE <<>>)
         \o NamedIds(Tail(list))

\* rows owed to the first k metrics responses
RECURSIVE RowsUpTo(_)
RowsUpTo(k) ==
    IF k = 0 THEN 0
    ELSE RowsUpTo(k - 1) + Cardinality(DatesOf(metricsLog[k].data))

LoopsDone == pc \in {"writeMetrics", "writeLocations", "done"}

\* C9: the combined metrics sequence holds, for every metrics response in
\* request order, as many rows as the response has distinct dates, each
\* tagged 'locations/{id}' with the id of the location that request was
\* for; once the loops are over there was exactly one request per named
\* location of every account, in order.
C9_MetricsRowsPerLocation ==
    LET n == Len(metricsLog)
    IN  /\ Len(metrics_data) = RowsUpTo(n)
        /\ \A k \in 1..n :
              \A i \in (RowsUpTo(k - 1) + 1)..RowsUpTo(k) :
                 metrics_data[i]["locationId"]
                   = <<"locations", metricsLog[k].locationId>>
        /\ LoopsDone =>
              [k \in 1..n |-> metricsLog[k].locationId]
                = NamedIds(locations_data)

\* 2 accounts, one location each, 3 dates each: 6 rows, both locations
C9_Witness ==
    /\ pc = "done"
    /\ Len(allAccountDetails) = 2
    /\ Len(locations_data) = 2
    /\ Len(metrics_data) = 6
    /\ metrics_data[1]["locationId"] = <<"locations", "l1">>
    /\ metrics_data[6]["locationId"] = <<"locations", "l2">>

\* the rows of a table without their LOADTIMESTAMP column
Unstamped(rs) ==
    [i \in 1..Len(rs) |->
        [k \in DOMAIN rs[i] \ {"LOADTIMESTAMP"} |-> rs[i][k]]]

\* every table holds what its committed write put there, or the old rows
Holds(tableName, list) ==
    IF writes[tableName] > 0
    THEN /\ Unstamped(tables[tableName]) = list
         /\ \A i \in 1..Len(list) : Has(tables[tableName][i], "LOADTIMESTAMP")
    ELSE tables[tableName] = OldRows

Committed ==
    /\ Holds(accountsTable, allAccountDetails)
    /\ Holds(metricsTable, metrics_data)
    /\ Holds(locationsTable, locations_data)

FetchErrors == {"FetchError", "KeyError", "TypeError"}

\* C10: once an unhandled error has occurred the script takes no further
\* step (no fetch, no table write); the failing step writes no table, every
\* write committed before it keeps its contents, and after a failed fetch
\* the locations and metrics tables still hold their old rows.
C10_AbortKeepsCommittedWrites ==
    [][ /\ error = ""
        /\ error' # "" =>
              /\ tables' = tables
              /\ writes' = writes
              /\ Committed'
              /\ error' \in FetchErrors =>
                    /\ tables'[locationsTable] = OldRows
                    /\ tables'[metricsTable] = OldRows ]_vars

\* a metrics request failed after the accounts table was overwritten
C10_Witness ==
    /\ pc = "aborted"
    /\ error = "FetchError"
    /\ iter.op = "fetchMultiDailyMetricsTimeSeries"
    /\ writes[accountsTable] = 1
    /\ Unstamped(tables[accountsTable]) = allAccountDetails
    /\ metricsLog # <<>>

(***************************************************************************)
(* Properties of the sink operations and of the order of the run.          *)
(***************************************************************************)
\* the positions of main.py that follow a table write
AfterWrite == {"forAccount", "writeLocations", "done"}

\* C11: a sink failure, while the dataframe is built or while it is saved,
\* is caught where it occurs and yields the row count 0 without
\* propagating: the step that logs a sink failure records no error, returns
\* 0 rows, and leaves main.py at the statement after the table write.
C11_SinkFailureIsAbsorbed ==
    [][ sinkFailures' # sinkFailures =>
           /\ error' = ""
           /\ rows' = 0
           /\ pc' \in AfterWrite ]_vars

\* the sequence main.py writes to a table
Combined(tableName) ==
    IF tableName = accountsTable THEN allAccountDetails
    ELSE IF tableName = locationsTable THEN locations_data
    ELSE metrics_data

\* the run ended, no fetch failed (no exception, and the final token is an
\* issued one, so no issuance failed) and no sink operation failed
CleanRun ==
    /\ pc = "done"
    /\ error = ""
    /\ accessToken \in IssuedTokens
    /\ sinkFailures = {}

\* C12: after a run in which every fetch and every sink operation succeeded,
\* each of the three tables has been overwritten exactly once and holds the
\* run's combined sequence, whatever that sequence contains; none still
\* holds the rows of an earlier run.
C12_EveryTableOverwrittenOnce ==
    CleanRun =>
       \A t \in Tables :
          /\ writes[t] = 1
          /\ Unstamped(tables[t]) = Combined(t)
          /\ tables[t] # OldRows

\* the running loop iteration has checked its token and not yet sent its
\* request
BeforeRequest == iter.op # "" /\ ~iter.sent

\* the freshness check of the running iteration found the token empty
\* (None) or below 300 seconds
FoundStale ==
    \/ iter.token = NoneToken
    \/ /\ iter.result.type = "int"
       /\ iter.result.int < MinLifetime

\* C13: the token a fetch returns is the token its last request carried
\* and the next fetch starts from it, so getNewAccessToken is invoked only
\* in an iteration whose freshness check found the token empty or below 300
\* seconds, never because a fetch starts; the initial None token is met
\* only before the first accounts request, which one issuance precedes.
C13_TokenIsThreaded ==
    /\ (fpc = "idle" /\ error = "") => accessToken = lastBearer
    /\ BeforeRequest => iter.token = lastBearer
    /\ iter.refreshed => FoundStale
    /\ (iter.op # "" /\ iter.token = NoneToken) =>
          /\ iter.op = "listAllAccounts"
          /\ Len(cursors) = (IF iter.sent THEN 1 ELSE 0)
          /\ iter.sent => iter.refreshed
    /\ (fpc # "idle" /\ error = "" /\ ~iter.refreshed /\ iter.op # "") =>
          accessToken = iter.token

\* a metrics fetch started from the still-valid token that the locations
\* fetch returned, and sent its request with it, without any issuance
C13_Witness ==
    /\ iter.op = "fetchMultiDailyMetricsTimeSeries"
    /\ iter.sent
    /\ ~iter.refreshed
    /\ iter.token \in IssuedTokens
    /\ iter.bearer = iter.token
    /\ lastBearer = iter.token
    /\ error = ""

\* the operations that take place in a step
NewEvents == happened' \ happened

\* the step sends a data request of the fetch operation op
Sends(op) == iter'.sent /\ ~iter.sent /\ iter'.op = op

FinalTables == {metricsTable, locationsTable}

\* the location of the metrics request about to be sent is a record of a
\* completed locations fetch, that of the account the loop is at
OwnerFetched ==
    \E i \in 1..Len(locations_data) :
       /\ Has(locations_data[i], "name")
       /\ IdOf(locations_data[i]) = IdOf(allLocationDetails[li])
       /\ locations_data[i].accountId =
             Path("accounts", IdOf(allAccountDetails[ai]))

\* C14: main.py is sequential with a fixed order: the session is created
\* before anything else; the account pages are requested next, before any
\* table write or other request; the accounts table is written, once the
\* accounts fetch has returned, before any locations request; a metrics
\* request is sent only for a location that a completed locations fetch of
\* the current account returned; the locations and metrics tables are
\* written only when the loop over the accounts has ended and no fetch is
\* running, and no request follows them.
C14_FixedEventOrder ==
    [][ /\ "getSnowflakeSession" \in NewEvents => happened = {}
        /\ Sends("listAllAccounts") =>
              /\ "getSnowflakeSession" \in happened
              /\ happened \subseteq {"getSnowflakeSession", "listAllAccounts"}
        /\ accountsTable \in NewEvents =>
              /\ happened = {"getSnowflakeSession", "listAllAccounts"}
              /\ fpc = "idle"
              /\ allAccountDetails = accounts
        /\ Sends("getAccountLocations") =>
              /\ accountsTable \in happened
              /\ happened \cap FinalTables = {}
        /\ Sends("fetchMultiDailyMetricsTimeSeries") =>
              /\ accountsTable \in happened
              /\ "getAccountLocations" \in happened
              /\ happened \cap FinalTables = {}
              /\ OwnerFetched
        /\ NewEvents \cap FinalTables # {} =>
              /\ accountsTable \in happened
              /\ fpc = "idle"
              /\ ai > Len(allAccountDetails) ]_vars

\* a run that took every kind of step: session, accounts, locations and
\* metrics requests, and the three table writes
C14_Witness ==
    /\ pc = "done"
    /\ happened = {"getSnowflakeSession"} \cup FetchPcs \cup Tables
    /\ Len(allAccountDetails) = 2
    /\ Len(metricsLog) = 2
    /\ \A t \in Tables : writes[t] = 1

=============================================================================
